---------------------------- MODULE Spec2Model ----------------------------
(***************************************************************************)
(* A model of the recursive research orchestrator of deep-research:        *)
(* deepResearch, the p-limit limiter each call creates, the branch units   *)
(* it schedules, and firecrawlSearchWithRetry, the retry loop around the   *)
(* search service; and of the report writing that follows the research:    *)
(* writeFinalReport, refineReport and the end of run.                      *)
(*                                                                         *)
(* A call of deepResearch is named by its path in the recursion tree: the  *)
(* top-level call is <<>>, and the call made by unit i of call p is        *)
(* Append(p, i), which is also the name of that unit.  The two external    *)
(* services (search, structured generation) are the environment: each of   *)
(* their answers is drawn from a small set, and each may fail.             *)
(***************************************************************************)
EXTENDS Integers, Sequences, FiniteSets, TLC

\* ---------------------------------------------------------------- bounds

\* The largest breadth and depth a top-level call is given.
MaxBreadth == 4
MaxDepth == 2
\* The longest list of queries the generation service answers with.
MaxServiceQueries == 2
\* The number of branch units one run creates at most (the expansion answers
\* of a run, taken together, hold at most this many sub-queries).
MaxUnits == 3
\* The largest value ConcurrencyLimit is raised to.
MaxConcurrency == 2

\* ------------------------------------------------------ program constants

ConcurrencyLimit == 1
MAX_RETRIES == 5
INITIAL_BACKOFF == 5000

\* ------------------------------------------------------------ environment

\* The queries the generation service knows, in the order it lists them.
QueryOrder == <<"q2", "q1", "q4", "q3">>

\* What generateObject answers for a query expansion: a list of queries up
\* to MaxServiceQueries long (the service is asked for at most numQueries but
\* nothing makes it obey).
ServiceQueryLists ==
  {SubSeq(QueryOrder, 1, n) : n \in 0..MaxServiceQueries}

\* What firecrawl.search answers for a query when it answers: the url of
\* each item of result.data, "" for an item without a url.  The index that
\* is searched does not change during a run; whether a search fails does.
SearchResponse(query) ==
  CASE query = "q1" -> <<"u1">>
    [] query = "q2" -> <<"", "u2", "u1">>
    [] query = "q3" -> <<>>
    [] query = "q4" -> <<"u3", "u2">>

\* What generateObject answers for a distillation: the learnings (the
\* follow-up questions only become text of the next query).  The service is
\* asked for learnings that differ; nothing makes it obey.
DistillResponses == {<<"l1">>, <<"l2", "l1", "l2">>}

\* The learnings and visitedUrls a top-level call is given: run and
\* refineReport pass neither, so both are the default.
CarriedIn == {[learnings |-> <<>>, visitedUrls |-> <<>>]}

\* An error value: its kind, the query it names and the failure it wraps.
Err(kind, query, cause) == [kind |-> kind, query |-> query, cause |-> cause]
NoError == Err("none", "none", "none")

\* The failures of firecrawl.search: a timeout, or anything else.
SearchFailures == {Err("Timeout", "none", "none"), Err("Other", "none", "none")}

\* The failure of generateObject, with the step that made the call.
GenerationError(step) == Err("GenerationError", "none", step)

\* ---------------------------------------------------------- pure helpers

\* A variant of Dedupe that keeps every occurrence.
DedupeKeepsAll(s) == s

\* [...new Set(s)]: the first occurrence of each element, in order.
Dedupe(s) ==
  LET first == {i \in 1..Len(s) : \A j \in 1..(i - 1) : s[j] # s[i]}
      nth(k) == CHOOSE i \in first : Cardinality({j \in first : j <= i}) = k
  IN [k \in 1..Cardinality(first) |-> s[nth(k)]]

\* lodash compact: the truthy elements.
Compact(s) == SelectSeq(s, LAMBDA x : x # "")

\* A variant of Slice that keeps the whole list.
SliceKeepsAll(s, n) == s

\* Array.prototype.slice(0, n) for n >= 0.
Slice(s, n) == SubSeq(s, 1, IF Len(s) < n THEN Len(s) ELSE n)

\* A variant of AfterSpread for a merge by Array.prototype.push.
AfterPush(list, items) == list \o items

\* The list that [...list, ...items] has read, after the spread.
AfterSpread(list, items) == list

\* A variant of NewBreadth that rounds down.
NewBreadthFloor(breadth) == breadth \div 2

\* Math.ceil(breadth / 2).
NewBreadth(breadth) == (breadth + 1) \div 2

\* A variant of NewDepth that does not count down.
NewDepthKept(depth) == depth

NewDepth(depth) == depth - 1

\* A variant of ShouldRecurse that also recurses on a spent budget.
ShouldRecurseAtZero(newDepth) == newDepth >= 0

\* The test that gates the recursive call.
ShouldRecurse(newDepth) == newDepth > 0

\* The loop test and the retry test of firecrawlSearchWithRetry.
MayAttempt(attempt, retries) == attempt < retries

EmptyResult == [learnings |-> <<>>, visitedUrls |-> <<>>, queries |-> <<>>]

\* A variant of CatchResult that hands back what the call was given.
CatchResultCarried(learnings, visitedUrls) ==
  [learnings |-> learnings, visitedUrls |-> visitedUrls, queries |-> <<>>]

\* What a unit returns from its catch block, the learnings and visitedUrls
\* of the call being in scope there.
CatchResult(learnings, visitedUrls) == EmptyResult

Range(s) == {s[i] : i \in 1..Len(s)}

NoDup(s) == \A i, j \in 1..Len(s) : i # j => s[i] # s[j]

Parent(b) == SubSeq(b, 1, Len(b) - 1)

\* Call or unit b lies in the recursion tree below call p.
Below(p, b) == Len(p) < Len(b) /\ SubSeq(b, 1, Len(p)) = p

\* -------------------------------------------------------------- state

VARIABLES
  call,              \* path -> the deepResearch call of that name
  unit,              \* path -> the branch unit of that name
  quota,             \* the sub-queries the generation service still hands out
  concurrencyLimit,  \* the value ConcurrencyLimit has in this build
  pipeline           \* run, writeFinalReport and refineReport

vars == <<call, unit, quota, concurrencyLimit, pipeline>>

\* The units of call p, in the order of serpQueries.
UnitsOf(p) == {b \in DOMAIN unit : Parent(b) = p /\ Len(b) = Len(p) + 1}

Settled(b) == unit[b].pc \in {"done", "rejected"}

\* p-limit's activeCount: the units running their function or awaiting the
\* promise it returned.
ActiveCount(p) ==
  Cardinality({b \in UnitsOf(p) : unit[b].pc # "queued" /\ ~Settled(b)})

\* The siblings of unit b that have settled: the place of b in the order
\* in which the promises handed to Promise.all settle.
SettledSiblings(b) ==
  Cardinality({c \in UnitsOf(Parent(b)) : c # b /\ Settled(c)})

NewCall(breadth, depth, learnings, visitedUrls) ==
  [pc |-> "expand", breadth |-> breadth, depth |-> depth,
   learnings |-> learnings, visitedUrls |-> visitedUrls,
   served |-> <<>>, serpQueries |-> <<>>,
   result |-> EmptyResult, err |-> NoError]

NewUnit(query) ==
  [pc |-> "queued", query |-> query,
   attempt |-> 0, backoff |-> 0, slept |-> 0, gaps |-> <<>>,
   lastErr |-> NoError, thrown |-> NoError,
   retrieved |-> "no", distilled |-> "no",
   numFollowUpQuestions |-> 0, settledAfter |-> 0,
   newLearnings |-> <<>>, newUrls |-> <<>>,
   caught |-> NoError, contribution |-> EmptyResult, err |-> NoError]

\* No report is being written: deepResearch is all that runs.
NoPipeline == [pc |-> "none"]

Init ==
  /\ \E breadth \in 1..MaxBreadth, depth \in 0..MaxDepth, c \in CarriedIn :
       call = (<<>> :> NewCall(breadth, depth, c.learnings, c.visitedUrls))
  /\ unit = <<>>
  /\ quota = MaxUnits
  /\ concurrencyLimit = ConcurrencyLimit
  /\ pipeline = NoPipeline

\* A run that is given up to one level more than MaxDepth, a breadth that
\* may leave the level below more than one sub-query, and a generation
\* service that hands out one sub-query more.
DeepInit ==
  /\ \E breadth \in 1..(MaxBreadth - 1), depth \in 1..(MaxDepth + 1),
        c \in CarriedIn :
       call = (<<>> :> NewCall(breadth, depth, c.learnings, c.visitedUrls))
  /\ unit = <<>>
  /\ quota = MaxUnits + 1
  /\ concurrencyLimit = ConcurrencyLimit
  /\ pipeline = NoPipeline

\* A build whose ConcurrencyLimit has any value up to MaxConcurrency (the
\* comment at its definition invites raising it), running a research of up
\* to two levels.
CapInit ==
  /\ \E breadth \in {2, 3}, depth \in {1, 2}, c \in CarriedIn :
       call = (<<>> :> NewCall(breadth, depth, c.learnings, c.visitedUrls))
  /\ unit = <<>>
  /\ quota = MaxUnits + 1
  /\ concurrencyLimit \in 1..MaxConcurrency
  /\ pipeline = NoPipeline

\* A run with a breadth of at most two and a generation service that hands
\* out one sub-query more, so that every level of the tree can be full.
TreeInit ==
  /\ \E breadth \in {1, 2}, depth \in 1..MaxDepth, c \in CarriedIn :
       call = (<<>> :> NewCall(breadth, depth, c.learnings, c.visitedUrls))
  /\ unit = <<>>
  /\ quota = MaxUnits + 1
  /\ concurrencyLimit = ConcurrencyLimit
  /\ pipeline = NoPipeline

\* A run of two sibling units a level, one or two levels deep, in a build
\* whose ConcurrencyLimit has any value up to MaxConcurrency.
SiblingInit ==
  /\ \E depth \in {1, 2}, c \in CarriedIn :
       call = (<<>> :> NewCall(2, depth, c.learnings, c.visitedUrls))
  /\ unit = <<>>
  /\ quota = MaxUnits
  /\ concurrencyLimit \in 1..MaxConcurrency
  /\ pipeline = NoPipeline

\* ------------------------------------------------------------- actions

\* The head of the while loop of firecrawlSearchWithRetry: the next attempt,
\* or the throw after the loop.
LoopHead(u) ==
  IF MayAttempt(u.attempt, MAX_RETRIES)
  THEN [u EXCEPT !.pc = "sleep"]
  ELSE [u EXCEPT !.pc = "thrown", !.retrieved = "failed",
                 !.thrown = Err("Error", u.query, "none")]

\* generateSerpQueries answers: the call keeps the first `breadth` queries
\* and hands one unit per query to its own limiter.
Expand(p) ==
  /\ call[p].pc = "expand"
  /\ \E served \in ServiceQueryLists :
       LET Q == Slice(served, call[p].breadth) IN
       /\ Len(Q) <= quota
       /\ quota' = quota - Len(Q)
       /\ call' = [call EXCEPT ![p].pc = "await", ![p].served = served,
                               ![p].serpQueries = Q]
       /\ unit' = unit @@ [b \in {Append(p, i) : i \in 1..Len(Q)} |->
                            NewUnit(Q[b[Len(b)]])]
  /\ UNCHANGED <<concurrencyLimit, pipeline>>

\* generateSerpQueries fails: nothing in deepResearch catches it.
ExpandFail(p) ==
  /\ call[p].pc = "expand"
  /\ call' = [call EXCEPT ![p].pc = "failed",
                          ![p].err = GenerationError("expansion")]
  /\ UNCHANGED <<unit, quota, concurrencyLimit, pipeline>>

\* p-limit starts the oldest queued unit once a slot is free; the unit
\* enters firecrawlSearchWithRetry.
StartUnit(b) ==
  /\ unit[b].pc = "queued"
  /\ ActiveCount(Parent(b)) < concurrencyLimit
  /\ \A c \in UnitsOf(Parent(b)) :
       c[Len(c)] < b[Len(b)] => unit[c].pc # "queued"
  /\ unit' = [unit EXCEPT ![b] =
       LoopHead([@ EXCEPT !.attempt = 0, !.backoff = INITIAL_BACKOFF])]
  /\ UNCHANGED <<call, quota, concurrencyLimit, pipeline>>

\* The fixed sleep that opens every attempt.
SleepInitial(b) ==
  /\ unit[b].pc = "sleep"
  /\ unit' = [unit EXCEPT ![b].pc = "search",
                          ![b].slept = @ + INITIAL_BACKOFF]
  /\ UNCHANGED <<call, quota, concurrencyLimit, pipeline>>

\* firecrawl.search answers: firecrawlSearchWithRetry returns it, and the
\* unit collects the urls and the budget of the next level.
SearchOk(b) ==
  /\ unit[b].pc = "search"
  /\ LET r == SearchResponse(unit[b].query) IN
       unit' = [unit EXCEPT ![b].pc = "distill",
                            ![b].gaps = Append(@, unit[b].slept),
                            ![b].slept = 0,
                            ![b].retrieved = "ok",
                            ![b].newUrls = Compact(r),
                            ![b].numFollowUpQuestions =
                               NewBreadth(call[Parent(b)].breadth)]
  /\ UNCHANGED <<call, quota, concurrencyLimit, pipeline>>

\* firecrawl.search fails: another attempt after the backoff, or the
\* failure is thrown again.
SearchFail(b) ==
  /\ unit[b].pc = "search"
  /\ \E e \in SearchFailures :
       LET u == [unit[b] EXCEPT !.gaps = Append(@, unit[b].slept),
                                !.slept = 0,
                                !.lastErr = e,
                                !.attempt = @ + 1]
       IN unit' = [unit EXCEPT ![b] =
            IF MayAttempt(u.attempt, MAX_RETRIES)
            THEN [u EXCEPT !.pc = "backoff"]
            ELSE [u EXCEPT !.pc = "thrown", !.retrieved = "failed",
                           !.thrown = e]]
  /\ UNCHANGED <<call, quota, concurrencyLimit, pipeline>>

\* The sleep between two attempts, and the doubling after it.
BackoffSleep(b) ==
  /\ unit[b].pc = "backoff"
  /\ unit' = [unit EXCEPT ![b] =
       LoopHead([@ EXCEPT !.slept = @ + unit[b].backoff,
                          !.backoff = @ * 2,
                          !.lastErr = NoError])]
  /\ UNCHANGED <<call, quota, concurrencyLimit, pipeline>>

\* The locals of firecrawlSearchWithRetry, gone once it has returned.
Returned(u) ==
  [u EXCEPT !.attempt = 0, !.backoff = 0, !.slept = 0, !.gaps = <<>>,
            !.lastErr = NoError, !.thrown = NoError]

\* processSerpResult answers: the unit merges and either recurses, holding
\* its slot on the promise of the nested call, or returns.  The merge
\* spreads the lists of the call into new ones, which the nested call and
\* the value returned then hold.
DistillOk(b) ==
  /\ unit[b].pc = "distill"
  /\ \E d \in DistillResponses :
       LET p == Parent(b)
           allLearnings == call[p].learnings \o d
           allUrls == call[p].visitedUrls \o unit[b].newUrls
           newBreadth == NewBreadth(call[p].breadth)
           newDepth == NewDepth(call[p].depth)
           u == [Returned(unit[b]) EXCEPT !.distilled = "ok",
                                         !.newLearnings = d]
           read == [call EXCEPT
                      ![p].learnings = AfterSpread(@, d),
                      ![p].visitedUrls = AfterSpread(@, unit[b].newUrls)]
       IN IF ShouldRecurse(newDepth)
          THEN /\ unit' = [unit EXCEPT ![b] = [u EXCEPT !.pc = "recurse"]]
               /\ call' = read @@
                    (b :> NewCall(newBreadth, newDepth, allLearnings, allUrls))
          ELSE /\ unit' = [unit EXCEPT ![b] =
                    [u EXCEPT !.pc = "done",
                              !.settledAfter = SettledSiblings(b),
                              !.contribution =
                                 [learnings |-> allLearnings,
                                  visitedUrls |-> allUrls,
                                  queries |-> call[p].serpQueries]]]
               /\ call' = read
  /\ UNCHANGED <<quota, concurrencyLimit, pipeline>>

\* processSerpResult fails inside the try block.
DistillFail(b) ==
  /\ unit[b].pc = "distill"
  /\ unit' = [unit EXCEPT ![b] =
       [Returned(@) EXCEPT !.pc = "thrown", !.distilled = "failed",
                           !.thrown = GenerationError("distillation")]]
  /\ UNCHANGED <<call, quota, concurrencyLimit, pipeline>>

\* The catch block of the unit: whatever was thrown under the try.
CatchError(b) ==
  /\ unit[b].pc = "thrown"
  /\ unit' = [unit EXCEPT ![b] =
       [Returned(@) EXCEPT !.pc = "done", !.caught = unit[b].thrown,
                           !.settledAfter = SettledSiblings(b),
                           !.contribution =
                              CatchResult(call[Parent(b)].learnings,
                                          call[Parent(b)].visitedUrls)]]
  /\ UNCHANGED <<call, quota, concurrencyLimit, pipeline>>

\* The promise a unit returned settles: the unit settles with it and frees
\* its slot.  A rejection was returned, not awaited, so the catch block
\* does not see it, and Promise.all rejects the call on the first one.
AdoptNested(b) ==
  /\ unit[b].pc = "recurse"
  /\ \/ /\ call[b].pc = "done"
        /\ unit' = [unit EXCEPT ![b].pc = "done",
                                ![b].settledAfter = SettledSiblings(b),
                                ![b].contribution = call[b].result]
        /\ UNCHANGED call
     \/ /\ call[b].pc = "failed"
        /\ unit' = [unit EXCEPT ![b].pc = "rejected",
                                ![b].settledAfter = SettledSiblings(b),
                                ![b].err = call[b].err]
        /\ call' = [call EXCEPT ![Parent(b)] =
             IF @.pc = "await"
             THEN [@ EXCEPT !.pc = "failed", !.err = call[b].err]
             ELSE @]
  /\ UNCHANGED <<quota, concurrencyLimit, pipeline>>

\* A variant of FlatMap that keeps what the last unit returned.
FlatMapLast(p, n, field) ==
  IF n = 0 THEN <<>> ELSE unit[Append(p, n)].contribution[field]

\* results.flatMap(r => r.learnings) and the like, over the units in order.
RECURSIVE FlatMap(_, _, _)
FlatMap(p, n, field) ==
  IF n = 0 THEN <<>>
  ELSE FlatMap(p, n - 1, field) \o unit[Append(p, n)].contribution[field]

\* A variant of ResultQueries that gathers the queries of the units.
ResultQueriesOfUnits(p) == FlatMap(p, Len(call[p].serpQueries), "queries")

\* The queries of the result of a call.
ResultQueries(p) == call[p].serpQueries

\* Promise.all resolved: the result of the call.
Aggregate(p) ==
  /\ call[p].pc = "await"
  /\ \A b \in UnitsOf(p) : unit[b].pc = "done"
  /\ LET n == Len(call[p].serpQueries) IN
     call' = [call EXCEPT ![p].pc = "done",
                          ![p].result =
                            [learnings |-> Dedupe(FlatMap(p, n, "learnings")),
                             visitedUrls |-> Dedupe(FlatMap(p, n, "visitedUrls")),
                             queries |-> ResultQueries(p)]]
  /\ UNCHANGED <<unit, quota, concurrencyLimit, pipeline>>

Next ==
  \/ \E p \in DOMAIN call : Expand(p)
  \/ \E p \in DOMAIN call : ExpandFail(p)
  \/ \E b \in DOMAIN unit : StartUnit(b)
  \/ \E b \in DOMAIN unit : SleepInitial(b)
  \/ \E b \in DOMAIN unit : SearchOk(b)
  \/ \E b \in DOMAIN unit : SearchFail(b)
  \/ \E b \in DOMAIN unit : BackoffSleep(b)
  \/ \E b \in DOMAIN unit : DistillOk(b)
  \/ \E b \in DOMAIN unit : DistillFail(b)
  \/ \E b \in DOMAIN unit : CatchError(b)
  \/ \E b \in DOMAIN unit : AdoptNested(b)
  \/ \E p \in DOMAIN call : Aggregate(p)

Spec == Init /\ [][Next]_vars

\* Every call of a service returns or fails, and the event loop runs every
\* continuation that is ready.
FairSpec == Spec /\ WF_vars(Next)

DeepSpec == DeepInit /\ [][Next]_vars

CapSpec == CapInit /\ [][Next]_vars

TreeSpec == TreeInit /\ [][Next]_vars

SiblingSpec == SiblingInit /\ [][Next]_vars

\* ------------------------------------------------------- report writing

\* The largest refinementIterates writeFinalReport is given.
MaxRefinementIterates == 2
\* The number of branch units the research of one refinement creates at
\* most.
MaxRefineUnits == 2

\* The budget writeFinalReport gives every refinement, and the number that
\* ends the search of run for a free file name.
RefineBreadth == 3
RefineDepth == 2
CollisionLimit == 100

\* What generateObject answers when asked for a report, a criticism, and
\* follow-up questions (asked for at most `breadth`; nothing makes it obey).
ReportTexts == {"rA", "rB"}
Criticisms == {"c1"}
QuestionLists == {<<"f1">>, <<"f1", "f2", "f3", "f4">>}

\* The visitedUrls run hands to writeFinalReport: what its research
\* returned, which holds no url twice.
GivenUrls == {<<>>, <<"u3", "u2">>}

\* The files output/<name>.md that exist when run saves: 0 stands for the
\* generated name and k for the name followed by -k.
Disks == {{0}}

\* JavaScript values: a string (its pieces), an array, undefined.
Str(pieces) == [type |-> "string", value |-> pieces]
Arr(items) == [type |-> "array", value |-> items]
Undefined == [type |-> "undefined", value |-> <<>>]

\* v[name] for the names the code reads: a property of an object, and
\* undefined on a string, which has neither `steps` nor `report`.
Property(v, name) ==
  IF v.type = "object" /\ name \in DOMAIN v.value THEN v.value[name]
  ELSE Undefined

\* lines.join(sep), each line a list of pieces.
RECURSIVE Join(_, _)
Join(lines, sep) ==
  IF Len(lines) = 0 THEN <<>>
  ELSE IF Len(lines) = 1 THEN lines[1]
  ELSE lines[1] \o <<sep>> \o Join(Tail(lines), sep)

\* A variant of UrlsSection that lists the urls last to first.
UrlsSectionReversed(visitedUrls) ==
  <<"\n\n## Sources\n\n">>
    \o Join([k \in 1..Len(visitedUrls) |->
               <<"- ", visitedUrls[Len(visitedUrls) + 1 - k]>>], "\n")

\* The text appended to the report.
UrlsSection(visitedUrls) ==
  <<"\n\n## Sources\n\n">>
    \o Join([k \in 1..Len(visitedUrls) |-> <<"- ", visitedUrls[k]>>], "\n")

\* A variant of NextReport that keeps the report the loop began with.
NextReportKept(reportMarkdown, refinedReport) == reportMarkdown

\* res.object.reportMarkdown after an iteration of the refinement loop.
NextReport(reportMarkdown, refinedReport) == refinedReport

\* The while loop of run that looks for a free file name: fileName is the
\* candidate under test, i the suffix of the next one.
RECURSIVE SaveLoop(_, _, _)
SaveLoop(disk, fileName, i) ==
  IF fileName \notin disk
  THEN [written |-> {fileName}, logged |-> FALSE, exit |-> 0]
  ELSE IF i + 1 > CollisionLimit
       THEN [written |-> {}, logged |-> TRUE, exit |-> 1]
       ELSE SaveLoop(disk, i, i + 1)

\* One call of refineReport, as it goes: the report it received, the steps
\* it has taken, the report its revision was asked to revise, and the
\* report it returned.
NewIteration(report) ==
  [received |-> report, steps |-> <<>>, revised |-> "", returned |-> ""]

\* run calls writeFinalReport with what its research returned.
ReportInit ==
  /\ \E urls \in GivenUrls, k \in 0..MaxRefinementIterates, disk \in Disks :
       /\ call = (<<>> :> [NewCall(1, 1, <<>>, <<>>) EXCEPT
                             !.pc = "done",
                             !.result = [learnings |-> <<"l1">>,
                                         visitedUrls |-> urls,
                                         queries |-> <<>>]])
       /\ pipeline =
            [pc |-> "draft", learnings |-> <<"l1">>, visitedUrls |-> urls,
             refinementIterates |-> k, i |-> 0,
             draft |-> "", reportMarkdown |-> "",
             report |-> "", criticism |-> "", followUpQuestions |-> <<>>,
             newLearnings |-> <<>>, newVisitedUrls |-> <<>>,
             trail |-> <<>>,
             value |-> Undefined, runSteps |-> Undefined,
             runReport |-> Undefined,
             disk |-> disk, written |-> {}, logged |-> FALSE, exit |-> 0,
             err |-> NoError]
  /\ unit = <<>>
  /\ quota = 0
  /\ concurrencyLimit = ConcurrencyLimit

\* The last entry of the trail, and the trail with e in its place.
Last(trail) == trail[Len(trail)]

WithLast(trail, e) == [trail EXCEPT ![Len(trail)] = e]

\* generateObject answers the draft of the report.
Draft ==
  /\ pipeline.pc = "draft"
  /\ \E text \in ReportTexts :
       pipeline' = [pipeline EXCEPT !.pc = "loop", !.draft = text,
                                    !.reportMarkdown = text]
  /\ UNCHANGED <<call, unit, quota, concurrencyLimit>>

\* generateObject fails in writeFinalReport or in refineReport: neither
\* catches, and run rejects.
GenerationFails ==
  /\ pipeline.pc \in {"draft", "criticism", "questions", "revision"}
  /\ pipeline' = [pipeline EXCEPT !.pc = "failed",
                                  !.err = GenerationError(pipeline.pc)]
  /\ UNCHANGED <<call, unit, quota, concurrencyLimit>>

\* The loop test holds: refineReport is called with the report so far.
CallRefine ==
  /\ pipeline.pc = "loop"
  /\ pipeline.i < pipeline.refinementIterates
  /\ pipeline' = [pipeline EXCEPT
       !.pc = "criticism",
       !.report = pipeline.reportMarkdown,
       !.trail = Append(@, NewIteration(pipeline.reportMarkdown))]
  /\ UNCHANGED <<call, unit, quota, concurrencyLimit>>

\* Step 1 of refineReport.
Criticise ==
  /\ pipeline.pc = "criticism"
  /\ \E c \in Criticisms :
       pipeline' = [pipeline EXCEPT
         !.pc = "questions", !.criticism = c,
         !.trail = WithLast(@, [Last(@) EXCEPT
                      !.steps = Append(@, "criticism")])]
  /\ UNCHANGED <<call, unit, quota, concurrencyLimit>>

\* Step 2 of refineReport, and the call of deepResearch that opens step 3.
AskQuestions ==
  /\ pipeline.pc = "questions"
  /\ \E answer \in QuestionLists :
       LET followUpQuestions == Slice(answer, RefineBreadth) IN
       pipeline' = [pipeline EXCEPT
         !.pc = "research", !.followUpQuestions = followUpQuestions,
         !.trail = WithLast(@, [Last(@) EXCEPT
                      !.steps = Append(@, "questions")])]
  /\ call' = (<<>> :> NewCall(RefineBreadth, RefineDepth, <<>>, <<>>))
  /\ unit' = <<>>
  /\ quota' = MaxRefineUnits
  /\ UNCHANGED concurrencyLimit

\* deepResearch resolves: refineReport goes on to step 4, and nothing
\* refers any more to the units and the nested calls of the research.
ResearchReturns ==
  /\ pipeline.pc = "research"
  /\ call[<<>>].pc = "done"
  /\ pipeline' = [pipeline EXCEPT
       !.pc = "revision",
       !.newLearnings = call[<<>>].result.learnings,
       !.newVisitedUrls = call[<<>>].result.visitedUrls,
       !.trail = WithLast(@, [Last(@) EXCEPT
                    !.steps = Append(@, "research")])]
  /\ call' = (<<>> :> [call[<<>>] EXCEPT !.served = <<>>,
                                           !.serpQueries = <<>>])
  /\ unit' = <<>>
  /\ quota' = 0
  /\ UNCHANGED concurrencyLimit

\* deepResearch rejects: so do refineReport, writeFinalReport and run.
ResearchRejects ==
  /\ pipeline.pc = "research"
  /\ call[<<>>].pc = "failed"
  /\ pipeline' = [pipeline EXCEPT !.pc = "failed", !.err = call[<<>>].err]
  /\ UNCHANGED <<call, unit, quota, concurrencyLimit>>

\* Step 4 of refineReport and its return into the loop of writeFinalReport.
Revise ==
  /\ pipeline.pc = "revision"
  /\ \E revisedReport \in ReportTexts :
       pipeline' = [pipeline EXCEPT
         !.pc = "loop",
         !.reportMarkdown = NextReport(@, revisedReport),
         !.i = @ + 1,
         !.report = "", !.criticism = "", !.followUpQuestions = <<>>,
         !.newLearnings = <<>>,
         !.trail = WithLast(@, [Last(@) EXCEPT
                      !.steps = Append(@, "revision"),
                      !.revised = pipeline.report,
                      !.returned = revisedReport])]
  /\ UNCHANGED <<call, unit, quota, concurrencyLimit>>

\* The loop test fails: writeFinalReport returns the report and the urls
\* section as one string, which run destructures.
ReturnReport ==
  /\ pipeline.pc = "loop"
  /\ ~(pipeline.i < pipeline.refinementIterates)
  /\ LET value == Str(<<pipeline.reportMarkdown>>
                        \o UrlsSection(pipeline.visitedUrls))
     IN pipeline' = [pipeline EXCEPT
          !.pc = "returned", !.value = value,
          !.runSteps = Property(value, "steps"),
          !.runReport = Property(value, "report")]
  /\ UNCHANGED <<call, unit, quota, concurrencyLimit>>

\* The rest of run: the metadata, which reads steps.map, then the search
\* for a free file name and the write.
ComposeAndSave ==
  /\ pipeline.pc = "returned"
  /\ pipeline' =
       IF pipeline.runSteps.type # "array"
       THEN [pipeline EXCEPT !.pc = "failed",
                             !.err = Err("TypeError", "none", "steps.map")]
       ELSE LET saved == SaveLoop(pipeline.disk, 0, 1) IN
            [pipeline EXCEPT
               !.pc = IF saved.exit = 0 THEN "saved" ELSE "exited",
               !.disk = @ \cup saved.written,
               !.written = saved.written,
               !.logged = saved.logged,
               !.exit = saved.exit]
  /\ UNCHANGED <<call, unit, quota, concurrencyLimit>>

ReportNext ==
  \/ Draft
  \/ GenerationFails
  \/ CallRefine
  \/ Criticise
  \/ AskQuestions
  \/ ResearchReturns
  \/ ResearchRejects
  \/ Revise
  \/ ReturnReport
  \/ ComposeAndSave
  \/ \E p \in DOMAIN call : Expand(p)
  \/ \E p \in DOMAIN call : ExpandFail(p)
  \/ \E b \in DOMAIN unit : StartUnit(b)
  \/ \E b \in DOMAIN unit : SleepInitial(b)
  \/ \E b \in DOMAIN unit : SearchOk(b)
  \/ \E b \in DOMAIN unit : SearchFail(b)
  \/ \E b \in DOMAIN unit : BackoffSleep(b)
  \/ \E b \in DOMAIN unit : DistillOk(b)
  \/ \E b \in DOMAIN unit : DistillFail(b)
  \/ \E b \in DOMAIN unit : CatchError(b)
  \/ \E b \in DOMAIN unit : AdoptNested(b)
  \/ \E p \in DOMAIN call : Aggregate(p)

ReportSpec == ReportInit /\ [][ReportNext]_vars

\* ---------------------------------------------------------------- claims

Calls == DOMAIN call
Units == DOMAIN unit
Top == <<>>

\* Every call and every unit has settled.
AllSettled ==
  /\ \A p \in Calls : call[p].pc \in {"done", "failed"}
  /\ \A b \in Units : Settled(b)

\* No call is nested deeper than the depth the top-level call was given.
ChainWithinDepth == \A p \in Calls : Len(p) <= call[Top].depth

\* C1: when every service call returns or fails, deepResearch eventually
\* completes, whatever breadth >= 1 and depth >= 0 it was given, and the
\* chain of nested calls below the top-level call is never longer than the
\* initial depth.
C1_TerminatesWithinDepth == <>[]AllSettled /\ []ChainWithinDepth

\* A run with depth 2 has completed with a nested call one level down.
C1_Witness ==
  /\ AllSettled
  /\ call[Top].pc = "done"
  /\ call[Top].depth = 2
  /\ \E p \in Calls : Len(p) = 1 /\ call[p].pc = "done"

\* C2: the result of every call, at every level, holds no string twice in
\* learnings and none twice in visitedUrls; a url that two sibling units
\* both contribute is in visitedUrls (once).
C2_NoDuplicates ==
  \A p \in Calls : call[p].pc = "done" =>
    /\ NoDup(call[p].result.learnings)
    /\ NoDup(call[p].result.visitedUrls)
    /\ \A b, c \in UnitsOf(p) : b # c =>
         (Range(unit[b].contribution.visitedUrls)
            \cap Range(unit[c].contribution.visitedUrls))
           \subseteq Range(call[p].result.visitedUrls)

\* Two sibling units contributed the same url and the same learning, and
\* the call was given a learning that one of them distilled again.
C2_Witness ==
  \E p \in Calls :
    /\ call[p].pc = "done"
    /\ call[p].learnings # <<>>
    /\ \E b, c \in UnitsOf(p) :
         /\ b # c
         /\ "u1" \in Range(unit[b].newUrls) \cap Range(unit[c].newUrls)
         /\ "l1" \in Range(unit[b].newLearnings) \cap Range(unit[c].newLearnings)
         /\ "l1" \in Range(call[p].learnings)
         /\ ~NoDup(unit[b].contribution.learnings)

\* C3: a unit whose retrieval failed contributes the empty result; no call
\* fails with a retrieval failure; the call still runs every sibling, and a
\* sibling that returns without recursing contributes what it was given
\* followed by what it gathered; a level whose retrievals all failed
\* returns empty learnings and visitedUrls.
C3_RetrievalFailureContained ==
  /\ \A b \in Units : unit[b].retrieved = "failed" /\ Settled(b) =>
       /\ unit[b].pc = "done"
       /\ unit[b].contribution = EmptyResult
  /\ \A p \in Calls : call[p].pc = "failed" =>
       call[p].err = GenerationError("expansion")
  /\ \A p \in Calls : call[p].pc = "done" =>
       /\ \A b \in UnitsOf(p) : unit[b].pc = "done"
       /\ \A b \in UnitsOf(p) :
            unit[b].distilled = "ok" /\ b \notin Calls =>
              unit[b].contribution =
                [learnings |-> call[p].learnings \o unit[b].newLearnings,
                 visitedUrls |-> call[p].visitedUrls \o unit[b].newUrls,
                 queries |-> call[p].serpQueries]
       /\ (\A b \in UnitsOf(p) : unit[b].retrieved = "failed") =>
            /\ call[p].result.learnings = <<>>
            /\ call[p].result.visitedUrls = <<>>

\* A nested call that was given learnings has returned: the retrieval of its
\* first unit failed and its second unit contributed.
C3_Witness ==
  \E p \in Calls :
    /\ call[p].pc = "done"
    /\ call[p].learnings # <<>>
    /\ Len(call[p].serpQueries) = 2
    /\ unit[Append(p, 1)].retrieved = "failed"
    /\ unit[Append(p, 2)].distilled = "ok"
    /\ call[p].result.learnings # <<>>

\* C4: a GenerationError of query expansion or distillation is never turned
\* into a contribution: the call in which it occurred fails with it.
C4_GenerationErrorsPropagate ==
  /\ \A b \in Units : unit[b].caught.kind # "GenerationError"
  /\ \A b \in Units : unit[b].distilled = "failed" /\ Settled(b) =>
       /\ unit[b].pc = "rejected"
       /\ call[Parent(b)].pc = "failed"

\* m is Math.ceil(n / 2).
IsCeilHalf(m, n) == 2 * m >= n /\ 2 * (m - 1) < n

\* Every nested call has the budget (ceil(breadth / 2), depth - 1) of the
\* call that made it.
BudgetHalved ==
  \A p \in Calls : p # Top =>
    /\ IsCeilHalf(call[p].breadth, call[Parent(p)].breadth)
    /\ call[p].depth = call[Parent(p)].depth - 1

\* C5 as stated: the budget is halved, and from breadth 4, depth 2 the next
\* level has breadth 2, depth 1 and the level after it is invoked with
\* breadth 1, depth 0.
C5_Original ==
  /\ BudgetHalved
  /\ \A p \in Calls :
       p # Top /\ call[Parent(p)].breadth = 4 /\ call[Parent(p)].depth = 2 =>
         /\ call[p].breadth = 2 /\ call[p].depth = 1
         /\ \A b \in UnitsOf(p) : unit[b].distilled = "ok" /\ Settled(b) =>
              /\ b \in Calls
              /\ call[b].breadth = 1 /\ call[b].depth = 0

\* C5, amended: the budget is halved; from breadth 4, depth 2 the next level
\* has breadth 2, depth 1, and that level makes no recursive call: no call
\* is ever invoked with depth 0 by another call.
C5_BudgetHalved ==
  /\ BudgetHalved
  /\ \A p \in Calls : p # Top => call[p].depth >= 1
  /\ \A p \in Calls :
       p # Top /\ call[Parent(p)].breadth = 4 /\ call[Parent(p)].depth = 2 =>
         /\ call[p].breadth = 2 /\ call[p].depth = 1
         /\ \A b \in UnitsOf(p) : b \notin Calls

\* A call invoked with breadth 2, depth 1 from breadth 4, depth 2 has
\* returned, one of its units having retrieved and distilled.
C5_Witness ==
  \E p \in Calls :
    /\ p # Top
    /\ call[Top].breadth = 4 /\ call[Top].depth = 2
    /\ call[p].breadth = 2 /\ call[p].depth = 1
    /\ call[p].pc = "done"
    /\ \E b \in UnitsOf(p) : unit[b].distilled = "ok" /\ b \notin Calls

\* C6: whatever its depth, a call that got its sub-queries has one unit per
\* sub-query; when it returns, each unit has made its retrieval, and its
\* distillation exactly when the retrieval succeeded; a unit makes the
\* recursive call exactly when it distilled and depth - 1 > 0.
C6_OnePassAlways ==
  \A p \in Calls :
    /\ call[p].pc \in {"await", "done"} =>
         UnitsOf(p) = {Append(p, i) : i \in 1..Len(call[p].serpQueries)}
    /\ call[p].pc = "done" =>
         \A b \in UnitsOf(p) :
           /\ unit[b].retrieved \in {"ok", "failed"}
           /\ unit[b].distilled # "no" <=> unit[b].retrieved = "ok"
    /\ \A b \in UnitsOf(p) :
         b \in Calls <=> (unit[b].distilled = "ok" /\ call[p].depth - 1 > 0)

\* A call with depth 0 has returned, one of its units having retrieved and
\* distilled.
C6_Witness ==
  /\ call[Top].depth = 0
  /\ call[Top].pc = "done"
  /\ \E b \in UnitsOf(Top) : unit[b].distilled = "ok" /\ b \notin Calls

\* C7: the result of a call holds what the call was given and every learning
\* and url of every unit below it that retrieved and distilled.
C7_NothingGatheredIsLost ==
  \A p \in Calls : call[p].pc = "done" =>
    /\ Range(call[p].learnings) \subseteq Range(call[p].result.learnings)
    /\ Range(call[p].visitedUrls) \subseteq Range(call[p].result.visitedUrls)
    /\ \A b \in Units : Below(p, b) /\ unit[b].distilled = "ok" =>
         /\ Range(unit[b].newLearnings) \subseteq Range(call[p].result.learnings)
         /\ Range(unit[b].newUrls) \subseteq Range(call[p].result.visitedUrls)

\* C8: the queries of a result are the sub-queries of that call's own query
\* expansion, in the order of the answer, and at most breadth of them.
C8_QueriesOfThisLevel ==
  \A p \in Calls :
    /\ call[p].pc = "done" => call[p].result.queries = call[p].serpQueries
    /\ call[p].pc \in {"await", "done"} =>
         /\ Len(call[p].serpQueries) <= call[p].breadth
         /\ Len(call[p].serpQueries) <= Len(call[p].served)
         /\ Len(call[p].serpQueries) < call[p].breadth =>
              Len(call[p].serpQueries) = Len(call[p].served)
         /\ \A i \in 1..Len(call[p].serpQueries) :
              call[p].serpQueries[i] = call[p].served[i]

\* A call has returned two queries in the order of the answer; a call below
\* it, whose answer was cut to its breadth, returned another list, and one of
\* its units failed.
C8_Witness ==
  /\ call[Top].pc = "done"
  /\ call[Top].result.queries = <<"q2", "q1">>
  /\ \E b \in UnitsOf(Top) : unit[b].retrieved = "failed"
  /\ \E p \in Calls :
       /\ p # Top
       /\ call[p].pc = "done"
       /\ Len(call[p].served) > call[p].breadth
       /\ call[p].result.queries = <<"q2">>

\* C9: the search service is called at most MAX_RETRIES times for a query;
\* the first answer is returned at once; the function fails only after
\* MAX_RETRIES failed attempts, with an error that carries the query and
\* the last failure, whether that failure is a timeout or not.
C9_BoundedRetries ==
  \A b \in Units :
    /\ Len(unit[b].gaps) <= MAX_RETRIES
    /\ unit[b].pc = "distill" => Len(unit[b].gaps) = unit[b].attempt + 1
    /\ unit[b].pc = "backoff" => unit[b].lastErr \in SearchFailures
    /\ unit[b].pc = "thrown" /\ unit[b].retrieved = "failed" =>
         /\ Len(unit[b].gaps) = MAX_RETRIES
         /\ unit[b].attempt = MAX_RETRIES
         /\ unit[b].thrown.query = unit[b].query
         /\ unit[b].thrown.cause = unit[b].lastErr.kind

\* 2 to the power n.
RECURSIVE Pow2(_)
Pow2(n) == IF n = 0 THEN 1 ELSE 2 * Pow2(n - 1)

\* C10: the wait before the first attempt is INITIAL_BACKOFF, and the wait
\* between attempt i and attempt i + 1 is INITIAL_BACKOFF doubled i - 1
\* times: 5000, 10000, 20000, 40000.
C10_PureExponentialBackoff ==
  \A b \in Units :
    \A i \in 1..Len(unit[b].gaps) :
      unit[b].gaps[i] =
        IF i = 1 THEN INITIAL_BACKOFF ELSE INITIAL_BACKOFF * Pow2(i - 2)

\* The calls of the search service and of the generation service that have
\* been made and have not returned yet.
OutstandingServiceCalls ==
  Cardinality({p \in Calls : call[p].pc = "expand"})
    + Cardinality({b \in Units : unit[b].pc \in {"search", "distill"}})

\* Unit b and everything in the recursion tree below it has settled.
SubtreeResolved(b) ==
  /\ Settled(b)
  /\ \A x \in Units : Below(b, x) => Settled(x)
  /\ \A x \in Calls : (x = b \/ Below(b, x)) => call[x].pc \in {"done", "failed"}

\* C11: with the cap of 1 the recursion tree runs strictly one step after
\* the other: at most one call of the search or the generation service is
\* outstanding over all levels, and unit i+1 of a call has not left the
\* queue before unit i of that call and the whole subtree below it has
\* resolved.
C11_StrictlySequential ==
  concurrencyLimit = 1 =>
    /\ OutstandingServiceCalls <= 1
    /\ \A b, c \in Units :
         /\ Parent(b) = Parent(c)
         /\ Len(b) = Len(c)
         /\ c[Len(c)] = b[Len(b)] + 1
         /\ unit[c].pc # "queued"
         => SubtreeResolved(b)

\* Unit b is inside firecrawlSearchWithRetry or inside processSerpResult.
Executing(b) == unit[b].pc \in {"sleep", "search", "backoff", "distill"}

\* C12: the cap is global: whatever value N >= 1 ConcurrencyLimit has, and
\* whatever the breadth and the depth, no more than N units are executing a
\* retrieval or a distillation at the same instant, all levels of the
\* recursion tree taken together.
C12_CapIsGlobal ==
  Cardinality({b \in Units : Executing(b)}) <= concurrencyLimit

\* The units that made a retrieval and a distillation.
Pairs == {b \in Units : unit[b].retrieved = "ok" /\ unit[b].distilled # "no"}

\* The calls of the generation service made so far: one expansion for each
\* call that has left it behind, one distillation for each pair.
InferenceCalls ==
  Cardinality({p \in Calls : call[p].pc # "expand"}) + Cardinality(Pairs)

\* breadth + ceil(breadth/2) + ceil(breadth/4) + ..., one term for each
\* level a run with this budget visits.
RECURSIVE PathSum(_, _)
PathSum(breadth, depth) ==
  breadth + (IF depth - 1 > 0
             THEN PathSum((breadth + 1) \div 2, depth - 1) ELSE 0)

\* The size of the full tree: breadth units, each with a full tree of the
\* halved breadth below it while a level is left.
RECURSIVE TreeSum(_, _)
TreeSum(breadth, depth) ==
  breadth * (1 + (IF depth - 1 > 0
                  THEN TreeSum((breadth + 1) \div 2, depth - 1) ELSE 0))

C19_CarriedInUnchanged ==
  [][/\ \A p \in DOMAIN call :
          /\ p \in DOMAIN call'
          /\ call'[p].learnings = call[p].learnings
          /\ call'[p].visitedUrls = call[p].visitedUrls
     /\ \A b \in DOMAIN unit :
          Settled(b) => unit'[b].contribution = unit[b].contribution]_vars

\* A nested call that was given learnings and urls has completed after two
\* of its units each returned what the call was given followed by what the
\* unit gathered, and the call still holds what it was given.
C19_Witness ==
  \E p \in Calls :
    /\ call[p].pc = "done"
    /\ call[p].learnings # <<>>
    /\ call[p].visitedUrls # <<>>
    /\ call[p].learnings = call[Parent(p)].learnings \o unit[p].newLearnings
    /\ \E b, c \in UnitsOf(p) :
         /\ b # c
         /\ \A x \in {b, c} :
              /\ unit[x].distilled = "ok"
              /\ unit[x].newLearnings # <<>>
              /\ unit[x].contribution.learnings =
                   call[p].learnings \o unit[x].newLearnings
              /\ unit[x].contribution.visitedUrls =
                   call[p].visitedUrls \o unit[x].newUrls

\* C20: every sub-query of a call seeds exactly one unit; a unit retrieves,
\* then distils, then (if depth - 1 > 0) recurses; distillation is called
\* only after the retrieval of the unit has succeeded, and with
\* numFollowUpQuestions = ceil(breadth/2); a unit whose retrieval failed
\* neither distils nor recurses.
C20_OneUnitPerQueryInOrder ==
  /\ \A p \in Calls : call[p].pc # "expand" =>
       /\ UnitsOf(p) = {Append(p, i) : i \in 1..Len(call[p].serpQueries)}
       /\ \A b \in UnitsOf(p) : unit[b].query = call[p].serpQueries[b[Len(b)]]
  /\ \A b \in Units :
       /\ unit[b].pc = "distill" \/ unit[b].distilled # "no" =>
            /\ unit[b].retrieved = "ok"
            /\ IsCeilHalf(unit[b].numFollowUpQuestions, call[Parent(b)].breadth)
       /\ unit[b].retrieved = "no" => unit[b].distilled = "no"
       /\ b \in Calls =>
            /\ unit[b].retrieved = "ok"
            /\ unit[b].distilled = "ok"
            /\ call[Parent(b)].depth - 1 > 0
       /\ unit[b].distilled = "ok" /\ call[Parent(b)].depth - 1 > 0 =>
            b \in Calls
       /\ unit[b].retrieved = "failed" =>
            /\ unit[b].distilled = "no"
            /\ unit[b].pc # "distill"
            /\ b \notin Calls

\* Of two sibling units one retrieved, distilled and recursed, and the
\* other, whose retrieval failed, settled without either.
C20_Witness ==
  \E b, c \in Units :
    /\ Parent(b) = Parent(c)
    /\ b \in Calls
    /\ call[b].pc = "done"
    /\ unit[b].pc = "done"
    /\ unit[b].numFollowUpQuestions = 2
    /\ unit[c].retrieved = "failed"
    /\ unit[c].pc = "done"

\* What the services answered to the units of call p and below, as a set:
\* nothing for a unit whose retrieval or distillation failed, the answers
\* below a unit that recursed, and for a unit that returned what its call
\* was given and what the unit was answered.  No step order enters it.
RECURSIVE Answered(_, _)
Answered(p, field) ==
  UNION {IF unit[b].retrieved # "ok" \/ unit[b].distilled # "ok" THEN {}
         ELSE IF b \in Calls THEN Answered(b, field)
         ELSE Range(call[p][field])
                \cup Range(IF field = "learnings" THEN unit[b].newLearnings
                           ELSE unit[b].newUrls)
         : b \in UnitsOf(p)}

\* C18: the set of learnings and the set of visitedUrls a call returns are
\* fixed by what the services answered to its units: they are the same for
\* every order in which sibling units run and settle, and for every value
\* of the cap.
C18_OrderIndependent ==
  \A p \in Calls : call[p].pc = "done" =>
    /\ Range(call[p].result.learnings) = Answered(p, "learnings")
    /\ Range(call[p].result.visitedUrls) = Answered(p, "visitedUrls")

\* Under a cap of two a call has completed whose second unit settled before
\* its first, the first having gathered a url the second did not and the
\* second a learning the first did not.
C18_Witness ==
  /\ concurrencyLimit >= 2
  /\ \E p \in Calls :
       /\ call[p].pc = "done"
       /\ \E b, c \in UnitsOf(p) :
            /\ b[Len(b)] < c[Len(c)]
            /\ unit[c].settledAfter < unit[b].settledAfter
            /\ Range(unit[b].contribution.visitedUrls)
                 \ Range(unit[c].contribution.visitedUrls) # {}
            /\ Range(unit[c].contribution.learnings)
                 \ Range(unit[b].contribution.learnings) # {}

\* writeFinalReport has returned to run.
ReportReturned == pipeline.value.type # "undefined"

\* C13: what writeFinalReport returns for refinementIterates = 0 is the
\* draft followed by the Sources section, with an empty step trail; for
\* refinementIterates = K the trail has exactly K entries, entry i being the
\* report that refinement i produced; and run receives the trail as `steps`
\* beside `report`.
C13_StepTrailRetained ==
  ReportReturned =>
    /\ pipeline.refinementIterates = 0 =>
         pipeline.value.value =
           <<pipeline.draft>> \o UrlsSection(pipeline.visitedUrls)
    /\ pipeline.runSteps.type = "array"
    /\ Len(pipeline.runSteps.value) = pipeline.refinementIterates
    /\ \A k \in 1..Len(pipeline.runSteps.value) :
         /\ k <= Len(pipeline.trail)
         /\ pipeline.runSteps.value[k] = pipeline.trail[k].returned
    /\ pipeline.runReport.type = "string"

\* The order of the steps of refineReport.
RefineSteps == <<"criticism", "questions", "research", "revision">>

\* C14: refineReport is called refinementIterates times, one call after
\* the other; the first call receives the draft and each later call the
\* report the call before it returned; a call takes its steps in the order
\* criticism, follow-up questions (at most breadth of them), research,
\* revision, and its revision revises the report the call received.
C14_RefinementChain ==
  LET trail == pipeline.trail IN
  /\ Len(trail) <= pipeline.refinementIterates
  /\ ReportReturned =>
       /\ Len(trail) = pipeline.refinementIterates
       /\ \A k \in 1..Len(trail) : trail[k].steps = RefineSteps
  /\ \A k \in 1..Len(trail) :
       /\ trail[k].received =
            (IF k = 1 THEN pipeline.draft ELSE trail[k - 1].returned)
       /\ trail[k].steps = SubSeq(RefineSteps, 1, Len(trail[k].steps))
       /\ k < Len(trail) => trail[k].steps = RefineSteps
       /\ trail[k].steps = RefineSteps => trail[k].revised = trail[k].received
  /\ pipeline.pc \in {"criticism", "questions", "research", "revision"} =>
       /\ trail # <<>>
       /\ Last(trail).steps # RefineSteps
       /\ pipeline.report = Last(trail).received
  /\ Len(pipeline.followUpQuestions) <= RefineBreadth
  /\ pipeline.pc = "research" =>
       /\ call[Top].breadth = RefineBreadth
       /\ Len(pipeline.followUpQuestions) <= call[Top].breadth

\* Two refinements have run and writeFinalReport has returned: the second
\* received a report that differs from the draft, and revised it into yet
\* another.
C14_Witness ==
  /\ ReportReturned
  /\ pipeline.refinementIterates = 2
  /\ Len(pipeline.trail) = 2
  /\ pipeline.trail[2].received # pipeline.draft
  /\ pipeline.trail[2].returned # pipeline.trail[2].received

\* The urls the Sources section of a text lists, in order: the piece after
\* each "- ".
ListedUrls(text) ==
  LET at == {k \in 1..(Len(text) - 1) : text[k] = "- "}
      nth(i) == CHOOSE k \in at : Cardinality({j \in at : j <= k}) = i
  IN [i \in 1..Cardinality(at) |-> text[nth(i) + 1]]

\* C16: the text writeFinalReport returns is the final report followed by
\* the header of the Sources section and one line "- url" for each of the
\* visitedUrls it was given, in their order, none added, dropped or moved,
\* whatever refinementIterates is and whatever urls the research of the
\* refinements visited.
C16_SourcesAreTheGivenUrls ==
  ReportReturned =>
    LET text == pipeline.value.value
        given == call[Top].result.visitedUrls
        n == Len(pipeline.visitedUrls)
    IN /\ pipeline.value.type = "string"
       /\ text[1] = pipeline.reportMarkdown
       /\ text[2] = "\n\n## Sources\n\n"
       /\ Len(text) = 2 + (IF n = 0 THEN 0 ELSE 3 * n - 1)
       /\ \A k \in 1..n :
            /\ text[3 * k] = "- "
            /\ text[3 * k + 1] = pipeline.visitedUrls[k]
            /\ k < n => text[3 * k + 2] = "\n"
       /\ ListedUrls(text) = pipeline.visitedUrls
       /\ pipeline.refinementIterates = 0 => ListedUrls(text) = given

\* After a refinement whose research visited a url that writeFinalReport
\* was not given, the text returned lists the two urls it was given.
C16_Witness ==
  /\ ReportReturned
  /\ pipeline.refinementIterates >= 1
  /\ Len(pipeline.visitedUrls) = 2
  /\ Range(pipeline.newVisitedUrls) \ Range(pipeline.visitedUrls) # {}
  /\ ListedUrls(pipeline.value.value) = pipeline.visitedUrls

\* The candidates run tests, none of which is on the disk it found.
FreeCandidates(disk) == {k \in 0..(CollisionLimit - 1) : k \notin disk}

\* C17: when run saves the report that writeFinalReport returned, it is
\* written to the first candidate (the name, then name-1, name-2, ...) that
\* does not exist; after 100 candidates that all exist the report and the
\* metadata are logged and the process then exits with a non-zero status,
\* no file being written.
C17_SavedOrLogged ==
  ReportReturned /\ pipeline.pc # "returned" =>
    LET before == pipeline.disk \ pipeline.written
        free == FreeCandidates(before)
    IN IF free # {}
       THEN /\ pipeline.pc = "saved"
            /\ pipeline.written = {CHOOSE k \in free : \A j \in free : k <= j}
       ELSE /\ pipeline.pc = "exited"
            /\ pipeline.logged
            /\ pipeline.exit # 0
            /\ pipeline.written = {}

\* Unit b occupies one of the slots of the limiter of its call.
HoldsSlot(b) == unit[b].pc # "queued" /\ ~Settled(b)

\* A unit that has given its slot back has nothing unresolved below it.
SlotKeptUntilSubtreeResolved ==
  \A b \in Units :
    unit[b].pc # "queued" /\ ~HoldsSlot(b) => SubtreeResolved(b)

\* While a call or a unit is unsettled some step can be taken.
NeverDeadlocked == AllSettled \/ ENABLED Next

\* A queued unit that cannot start waits for a sibling, in the limiter of
\* its own call: one that holds a slot, or one queued before it.
QueuedBehindSiblingsOnly ==
  \A b \in Units :
    unit[b].pc = "queued" /\ ~ENABLED StartUnit(b) =>
      \E c \in UnitsOf(Parent(b)) :
        /\ c # b
        /\ HoldsSlot(c) \/ (unit[c].pc = "queued" /\ c[Len(c)] < b[Len(b)])

\* C21: a unit keeps its slot until the whole recursion tree below it has
\* resolved, and still the run never deadlocks, whatever the cap, the
\* breadth and the depth: every call has a limiter of its own, so that no
\* unit of a nested call is queued behind a slot one of its ancestors
\* holds.
C21_SlotKeptWithoutDeadlock ==
  /\ SlotKeptUntilSubtreeResolved
  /\ NeverDeadlocked
  /\ QueuedBehindSiblingsOnly

=============================================================================
